---- MODULE Spec2Model ----
(***************************************************************************)
(* State machine of ImageSegmentationApp (Auto_image_segmentation_v1.py). *)
(*                                                                         *)
(* numpy arrays are objects: `heap` maps a reference to the pixels of the  *)
(* array it denotes, self.segmented_image is a reference and self.history  *)
(* is a list of references, so that `a = b` (sharing) and `a = b.copy()`   *)
(* (a fresh object) are different things, as they are in Python.           *)
(* A pixel position is <<y, x>> (row, column), a colour is <<r, g, b>> of  *)
(* uint8.                                                                  *)
(***************************************************************************)
EXTENDS Integers, Sequences, FiniteSets, TLC

\* ------------------------------------------------------------------ bounds
\* The test images are a wide and a tall strip, Long by Thin pixels: Long is
\* large enough for a 50-window to be clipped at the near edge only and at
\* the far edge only, and so is it for a 20-window.
Long == 27
Thin == 1
\* Most clicks on the canvas explored per opened image.
MaxClicks == 3

\* ------------------------------------------------------- program constants
region_size_segment == 50
region_size_remove == 20
threshold == 300
UInt8 == 256

\* Python's None, as a reference, as an array and as a colour; `NoError` is
\* a handler returning normally; Unset is an attribute never assigned.
NoneRef == 0
None == [h |-> 0, w |-> 0, px |-> <<>>]
Unset == [h |-> -1, w |-> -1, px |-> <<>>]
NoColor == <<>>
NoError == "None"

Max(a, b) == IF a >= b THEN a ELSE b
Min(a, b) == IF a <= b THEN a ELSE b

GREEN == <<0, 255, 0>>
WHITE == <<255, 255, 255>>
BLACK == <<0, 0, 0>>
DARK == <<10, 10, 10>>

\* ------------------------------------------------------------------ arrays
Pos(h, w) == (0 .. h - 1) \X (0 .. w - 1)

Arr(h, w, f) == [h |-> h, w |-> w, px |-> f]

\* The files the user can open, as cv2.imread decodes them (BGR order):
\* a wide strip of black, dark, white and red pixels, and a tall strip that
\* also holds pure green.
WideFile ==
  Arr(Thin, Long,
      [p \in Pos(Thin, Long) |->
         CASE (p[1] + p[2]) % 4 = 0 -> BLACK
           [] (p[1] + p[2]) % 4 = 1 -> DARK
           [] (p[1] + p[2]) % 4 = 2 -> WHITE
           [] OTHER -> <<0, 0, 200>>])

TallFile ==
  Arr(Long, Thin,
      [p \in Pos(Long, Thin) |->
         CASE (p[1] + p[2]) % 3 = 0 -> DARK
           [] (p[1] + p[2]) % 3 = 1 -> GREEN
           [] OTHER -> BLACK])

\* cv2.imread(path): the decoded array of the file chosen.
Files == {"wide", "tall"}
imread(path) == IF path = "wide" THEN WideFile ELSE TallFile
NoImage == "None"

\* Canvas points <<x, y>> the pointer can click: the origin and the far end
\* of either strip (which lies outside the other strip).
ClickPoints == {<<0, 0>>, <<Long - 1, 0>>, <<0, Long - 1>>}

\* cv2.cvtColor(img, cv2.COLOR_BGR2RGB): the channels in reverse order.
BGR2RGB(a) == Arr(a.h, a.w, [p \in DOMAIN a.px |-> <<a.px[p][3], a.px[p][2], a.px[p][1]>>])

\* cv2.cvtColor(img, cv2.COLOR_RGB2GRAY) on uint8: fixed point, 14 bits.
GrayOf(c) == (c[1] * 4899 + c[2] * 9617 + c[3] * 1868 + 8192) \div 16384
RGB2GRAY(a) == Arr(a.h, a.w, [p \in DOMAIN a.px |-> GrayOf(a.px[p])])

VARIABLES
  image,              \* self.image: the file whose BGR array it is, or NoImage
  image_rgb,          \* self.image_rgb: Unset until open_image assigns it
  segmented_image,    \* self.segmented_image: a reference, or None
  selected_color,     \* self.selected_color
  history,            \* self.history: a sequence of references
  remove_mask_mode,   \* self.remove_mask_mode
  heap,               \* reference -> pixels of the array object
  label,              \* reference -> per-pixel Unmarked / Marked / Cleared
  exported,           \* raster handed to cv2.imwrite by this step, else None
  raised,             \* exception this step's handler raised, else None
  run,                \* clicks and undos since the last load
  first,              \* the working mask right after the first click
  clicks              \* canvas clicks since the last open_image

vars == <<image, image_rgb, segmented_image, selected_color, history,
          remove_mask_mode, heap, label, exported, raised, run, first,
          clicks>>

\* ------------------------------------------------------------------ helpers
Refs == 1 .. (MaxClicks + 2)

Range(s) == {s[i] : i \in 1 .. Len(s)}

\* The references still reachable from the object's fields.
Live(seg, hist) == (IF seg = NoneRef THEN {} ELSE {seg}) \cup Range(hist)

\* A reference no live object uses (what np.copy / ndarray.copy allocates).
NewRef(used) == CHOOSE r \in Refs : r \notin used /\ \A q \in Refs : q < r => q \in used

\* Unreachable arrays are garbage: only live references stay in the heap.
Collect(h, seg, hist) == [r \in Live(seg, hist) |-> h[r]]

\* [k |-> v] extension of a function.
With(f, k, v) == [r \in DOMAIN f \cup {k} |-> IF r = k THEN v ELSE f[r]]

\* a[y_start:y_end, x_start:x_end] as a set of positions.
InSlice(p, win) ==
  /\ win.y_start <= p[1] /\ p[1] < win.y_end
  /\ win.x_start <= p[2] /\ p[2] < win.x_end

\* Window as it would be without the max(..., 0) of lines 78 and 80.
Window_NoLowClip(x, y, region_size, height, width) ==
  [x_start |-> x - region_size \div 2,
   x_end |-> Min(x + region_size \div 2, width),
   y_start |-> y - region_size \div 2,
   y_end |-> Min(y + region_size \div 2, height)]

\* The four clipped bounds around (x, y).
Window(x, y, region_size, height, width) ==
  [x_start |-> Max(x - region_size \div 2, 0),
   x_end |-> Min(x + region_size \div 2, width),
   y_start |-> Max(y - region_size \div 2, 0),
   y_end |-> Min(y + region_size \div 2, height)]

\* uint8 - uint8 in numpy: the difference modulo 256.
SubU8(a, b) == (a - b) % UInt8

\* np.linalg.norm(region_pixels - selected_color, axis=1) squared: the
\* uint8 differences are converted to float and their squares summed.
NormSq(pixel, color) ==
  SubU8(pixel[1], color[1]) * SubU8(pixel[1], color[1])
  + SubU8(pixel[2], color[2]) * SubU8(pixel[2], color[2])
  + SubU8(pixel[3], color[3]) * SubU8(pixel[3], color[3])

\* IsSimilar as it would be with the comparison of line 88 turned round.
IsSimilar_Inverted(pixel, color) == NormSq(pixel, color) > threshold * threshold

\* labels = distance < threshold; distance = sqrt of an integer below 2^18,
\* so sqrt(s) < 300 exactly when s < 300 * 300.
IsSimilar(pixel, color) == NormSq(pixel, color) < threshold * threshold

AllUnmarked(a) == [p \in DOMAIN a.px |-> "Unmarked"]

WorkingMask == heap[segmented_image]
WorkingLabel == label[segmented_image]

Init ==
  /\ image = NoImage
  /\ image_rgb = Unset
  /\ segmented_image = NoneRef
  /\ selected_color = NoColor
  /\ history = <<>>
  /\ remove_mask_mode = FALSE
  /\ heap = <<>>
  /\ label = <<>>
  /\ exported = None
  /\ raised = NoError
  /\ run = [n |-> 0, u |-> 0, pure |-> FALSE]
  /\ first = None
  /\ clicks = 0


Impure == [n |-> 0, u |-> 0, pure |-> FALSE]

\* What a handler that writes no raster and raises nothing leaves behind.
Quiet ==
  /\ exported' = None
  /\ raised' = NoError

\* ---------------------------------------------------------------- handlers
\* open_image as it would be if line 49 appended to self.history instead of
\* replacing it.
open_image_KeepHistory(file) ==
  LET rgb == BGR2RGB(imread(file))
      seg == NewRef(Range(history))
      snap == NewRef(Range(history) \cup {seg})
  IN /\ image' = file
     /\ image_rgb' = rgb
     /\ segmented_image' = seg
     /\ history' = Append(history, snap)
     /\ heap' = With(With(Collect(heap, NoneRef, history), seg, rgb), snap, rgb)
     /\ label' = With(With(Collect(label, NoneRef, history), seg, AllUnmarked(rgb)),
                      snap, AllUnmarked(rgb))
     /\ run' = [n |-> 0, u |-> 0, pure |-> TRUE]
     /\ first' = None
     /\ clicks' = 0
     /\ Quiet
     /\ UNCHANGED <<selected_color, remove_mask_mode>>

\* open_image with the file dialog returning `file`.
open_image(file) ==
  LET rgb == BGR2RGB(imread(file))
      seg == NewRef({})
      snap == NewRef({seg})
  IN /\ image' = file
     /\ image_rgb' = rgb
     /\ segmented_image' = seg
     /\ history' = <<snap>>
     /\ heap' = With(With(<<>>, seg, rgb), snap, rgb)
     /\ label' = With(With(<<>>, seg, AllUnmarked(rgb)), snap, AllUnmarked(rgb))
     /\ run' = [n |-> 0, u |-> 0, pure |-> TRUE]
     /\ first' = None
     /\ clicks' = 0
     /\ Quiet
     /\ UNCHANGED <<selected_color, remove_mask_mode>>

\* open_image with the file dialog cancelled: image_path is empty.
open_image_cancel ==
  /\ run' = Impure
  /\ first' = None
  /\ Quiet
  /\ UNCHANGED <<image, image_rgb, segmented_image, selected_color, history,
                 remove_mask_mode, heap, label, clicks>>

\* SegmentedRegion as it would be if line 83 took the region from
\* self.segmented_image, the mask being edited, instead of self.image_rgb.
SegmentedRegion_FromMask(old, win, color) ==
  [old EXCEPT !.px =
     [p \in DOMAIN old.px |->
        IF InSlice(p, win)
        THEN IF IsSimilar(old.px[p], color) THEN GREEN ELSE WHITE
        ELSE old.px[p]]]

\* SegmentedRegion as it would be if line 95 wrote whole rows, [y_start:y_end, :].
SegmentedRegion_WholeRows(old, win, color) ==
  [old EXCEPT !.px =
     [p \in DOMAIN old.px |->
        IF win.y_start <= p[1] /\ p[1] < win.y_end
        THEN IF IsSimilar(image_rgb.px[p], color) THEN GREEN ELSE WHITE
        ELSE old.px[p]]]

\* The window of segment_image, classified against selected_color.
SegmentedRegion(old, win, color) ==
  [old EXCEPT !.px =
     [p \in DOMAIN old.px |->
        IF InSlice(p, win)
        THEN IF IsSimilar(image_rgb.px[p], color) THEN GREEN ELSE WHITE
        ELSE old.px[p]]]

SegmentedLabel(old, win, color) ==
  [p \in DOMAIN old |->
     IF InSlice(p, win)
     THEN IF IsSimilar(image_rgb.px[p], color) THEN "Marked" ELSE "Cleared"
     ELSE old[p]]

\* segment_image as it would be if line 73 came after line 95: the snapshot
\* taken of the mask once the window is written.
segment_image_PushAfter(x, y) ==
  IF image' = NoImage \/ selected_color' = NoColor
  THEN /\ run' = Impure
       /\ first' = None
       /\ UNCHANGED <<segmented_image, history, heap, label>>
  ELSE LET snap == NewRef(DOMAIN heap)
           win == Window(x, y, region_size_segment, image_rgb.h, image_rgb.w)
           new == SegmentedRegion(WorkingMask, win, selected_color')
           newLabel == SegmentedLabel(WorkingLabel, win, selected_color')
       IN /\ history' = Append(history, snap)
          /\ heap' = With(With(heap, snap, new), segmented_image, new)
          /\ label' = With(With(label, snap, newLabel), segmented_image, newLabel)
          /\ run' = IF run.pure /\ run.u = 0
                    THEN [run EXCEPT !.n = run.n + 1]
                    ELSE Impure
          /\ first' = IF run.pure /\ run.u = 0
                      THEN (IF run.n = 0 THEN new ELSE first)
                      ELSE None
          /\ UNCHANGED segmented_image

\* segment_image(x, y), entered with selected_color already assigned.
segment_image(x, y) ==
  IF image' = NoImage \/ selected_color' = NoColor
  THEN /\ run' = Impure
       /\ first' = None
       /\ UNCHANGED <<segmented_image, history, heap, label>>
  ELSE LET snap == NewRef(DOMAIN heap)
           win == Window(x, y, region_size_segment, image_rgb.h, image_rgb.w)
           new == SegmentedRegion(WorkingMask, win, selected_color')
       IN /\ history' = Append(history, snap)
          /\ heap' = With(With(heap, snap, WorkingMask), segmented_image, new)
          /\ label' = With(With(label, snap, WorkingLabel), segmented_image,
                           SegmentedLabel(WorkingLabel, win, selected_color'))
          /\ run' = IF run.pure /\ run.u = 0
                    THEN [run EXCEPT !.n = run.n + 1]
                    ELSE Impure
          /\ first' = IF run.pure /\ run.u = 0
                      THEN (IF run.n = 0 THEN new ELSE first)
                      ELSE None
          /\ UNCHANGED segmented_image

\* remove_mask as it would be if it restored only the green pixels of the
\* window.
remove_mask_GreenOnly(x, y) ==
  LET win == Window(x, y, region_size_remove, image_rgb.h, image_rgb.w)
      old == WorkingMask
      hit == {p \in DOMAIN old.px : InSlice(p, win) /\ old.px[p] = GREEN}
  IN /\ heap' = [heap EXCEPT ![segmented_image] =
                   [old EXCEPT !.px =
                      [p \in DOMAIN old.px |->
                         IF p \in hit THEN image_rgb.px[p] ELSE old.px[p]]]]
     /\ label' = [label EXCEPT ![segmented_image] =
                    [p \in DOMAIN WorkingLabel |->
                       IF p \in hit THEN "Unmarked" ELSE WorkingLabel[p]]]
     /\ run' = Impure
     /\ first' = None
     /\ UNCHANGED <<segmented_image, history, selected_color>>

\* remove_mask(x, y)
remove_mask(x, y) ==
  LET win == Window(x, y, region_size_remove, image_rgb.h, image_rgb.w)
      old == WorkingMask
      new == [old EXCEPT !.px =
                [p \in DOMAIN old.px |->
                   IF InSlice(p, win) THEN image_rgb.px[p] ELSE old.px[p]]]
  IN /\ heap' = [heap EXCEPT ![segmented_image] = new]
     /\ label' = [label EXCEPT ![segmented_image] =
                    [p \in DOMAIN WorkingLabel |->
                       IF InSlice(p, win) THEN "Unmarked" ELSE WorkingLabel[p]]]
     /\ run' = Impure
     /\ first' = None
     /\ UNCHANGED <<segmented_image, history, selected_color>>

\* on_click(event) with event.x = x and event.y = y.
on_click(x, y) ==
  /\ exported' = None
  /\ clicks' = clicks + 1
  /\ UNCHANGED <<image, image_rgb, remove_mask_mode>>
  /\ IF image_rgb = Unset
     THEN \* line 54 reads an attribute __init__ never assigned
          /\ raised' = "AttributeError"
          /\ run' = Impure
          /\ first' = None
          /\ UNCHANGED <<segmented_image, selected_color, history, heap, label>>
     ELSE IF remove_mask_mode
     THEN /\ raised' = NoError
          /\ remove_mask(x, y)
     ELSE IF ~(y < image_rgb.h /\ x < image_rgb.w)
     THEN \* line 64 indexes image_rgb[y, x] out of bounds
          /\ raised' = "IndexError"
          /\ run' = Impure
          /\ first' = None
          /\ UNCHANGED <<segmented_image, selected_color, history, heap, label>>
     ELSE /\ raised' = NoError
          /\ selected_color' = image_rgb.px[<<y, x>>]
          /\ segment_image(x, y)

\* reset_white_regions as it would be if its mask took every pixel that
\* differs from the source, the green ones included.
reset_AllMarkers ==
  /\ Quiet
  /\ run' = Impure
  /\ first' = None
  /\ UNCHANGED <<image, image_rgb, segmented_image, selected_color, history,
                 remove_mask_mode, clicks>>
  /\ IF segmented_image = NoneRef
     THEN UNCHANGED <<heap, label>>
     ELSE /\ heap' = [heap EXCEPT ![segmented_image] = image_rgb]
          /\ label' = [label EXCEPT ![segmented_image] = AllUnmarked(image_rgb)]

\* reset_white_regions as it would be if it saved a snapshot for undo first,
\* as segment_image does.
reset_PushSnapshot ==
  /\ Quiet
  /\ run' = Impure
  /\ first' = None
  /\ UNCHANGED <<image, image_rgb, segmented_image, selected_color,
                 remove_mask_mode, clicks>>
  /\ IF segmented_image = NoneRef
     THEN UNCHANGED <<history, heap, label>>
     ELSE LET snap == NewRef(DOMAIN heap)
              old == WorkingMask
              mask == {p \in DOMAIN old.px : old.px[p] = WHITE}
          IN /\ history' = Append(history, snap)
             /\ heap' = With(With(heap, snap, old), segmented_image,
                             [old EXCEPT !.px =
                                [p \in DOMAIN old.px |->
                                   IF p \in mask THEN image_rgb.px[p] ELSE old.px[p]]])
             /\ label' = With(With(label, snap, WorkingLabel), segmented_image,
                              [p \in DOMAIN WorkingLabel |->
                                 IF p \in mask THEN "Unmarked" ELSE WorkingLabel[p]])

\* reset_white_regions
reset_white_regions ==
  /\ Quiet
  /\ run' = Impure
  /\ first' = None
  /\ UNCHANGED <<image, image_rgb, segmented_image, selected_color, history,
                 remove_mask_mode, clicks>>
  /\ IF segmented_image = NoneRef
     THEN UNCHANGED <<heap, label>>
     ELSE LET old == WorkingMask
              mask == {p \in DOMAIN old.px : old.px[p] = WHITE}
          IN /\ heap' = [heap EXCEPT ![segmented_image] =
                           [old EXCEPT !.px =
                              [p \in DOMAIN old.px |->
                                 IF p \in mask THEN image_rgb.px[p] ELSE old.px[p]]]]
             /\ label' = [label EXCEPT ![segmented_image] =
                            [p \in DOMAIN WorkingLabel |->
                               IF p \in mask THEN "Unmarked" ELSE WorkingLabel[p]]]

\* undo as it would be without line 113: the pop alone.
undo_NoRestore ==
  /\ Quiet
  /\ UNCHANGED <<image, image_rgb, selected_color, remove_mask_mode, clicks>>
  /\ run' = IF run.pure THEN [run EXCEPT !.u = Min(run.u + 1, run.n + 1)] ELSE Impure
  /\ first' = first
  /\ IF Len(history) > 1
     THEN /\ history' = SubSeq(history, 1, Len(history) - 1)
          /\ segmented_image' = segmented_image
          /\ heap' = Collect(heap, segmented_image', history')
          /\ label' = Collect(label, segmented_image', history')
     ELSE UNCHANGED <<segmented_image, history, heap, label>>

\* undo
undo ==
  /\ Quiet
  /\ UNCHANGED <<image, image_rgb, selected_color, remove_mask_mode, clicks>>
  /\ run' = IF run.pure THEN [run EXCEPT !.u = Min(run.u + 1, run.n + 1)] ELSE Impure
  /\ first' = first
  /\ IF Len(history) > 1
     THEN /\ history' = SubSeq(history, 1, Len(history) - 1)
          /\ segmented_image' = history'[Len(history')]
          /\ heap' = Collect(heap, segmented_image', history')
          /\ label' = Collect(label, segmented_image', history')
     ELSE UNCHANGED <<segmented_image, history, heap, label>>

\* toggle_remove_mask_mode
toggle_remove_mask_mode ==
  /\ remove_mask_mode' = ~remove_mask_mode
  /\ Quiet
  /\ run' = Impure
  /\ first' = None
  /\ UNCHANGED <<image, image_rgb, segmented_image, selected_color, history,
                 heap, label, clicks>>

\* binary_mask of save_green_mask, before the conversion to grayscale.
BinaryMask(a) ==
  Arr(a.h, a.w, [p \in DOMAIN a.px |-> IF a.px[p] = GREEN THEN WHITE ELSE BLACK])

\* save_green_mask with the save dialog returning a path (ok) or not.
save_green_mask(ok) ==
  /\ raised' = NoError
  /\ exported' = IF segmented_image # NoneRef /\ ok
                 THEN RGB2GRAY(BinaryMask(WorkingMask))
                 ELSE None
  /\ run' = Impure
  /\ first' = None
  /\ UNCHANGED <<image, image_rgb, segmented_image, selected_color, history,
                 remove_mask_mode, heap, label, clicks>>

\* ----------------------------------------------------------- specification
Open == \E file \in Files : open_image(file)
OpenCancelled == open_image_cancel
Click ==
  \E pt \in ClickPoints :
    /\ clicks < MaxClicks
    /\ on_click(pt[1], pt[2])
Next_ == reset_white_regions
Undo == undo
Toggle == toggle_remove_mask_mode
Save == \E ok \in BOOLEAN : save_green_mask(ok)

Next == Open \/ OpenCancelled \/ Click \/ Next_ \/ Undo \/ Toggle \/ Save

Spec == Init /\ [][Next]_vars


\* ------------------------------------------------------ vocabulary of claims
Loaded == image_rgb # Unset

InBounds(x, y) == Loaded /\ x < image_rgb.w /\ y < image_rgb.h

\* A step that is an in-bounds click in classify mode (applyClassification).
Classify(x, y) == ~remove_mask_mode /\ InBounds(x, y) /\ on_click(x, y)

\* A step that is a click in erase mode with an image loaded (eraseRegion).
Erase(x, y) == remove_mask_mode /\ Loaded /\ on_click(x, y)

\* p lies in [max(x-half,0), min(x+half,width)) x [max(y-half,0), min(y+half,height)).
InClipped(p, x, y, half) ==
  /\ Max(x - half, 0) <= p[2] /\ p[2] < Min(x + half, image_rgb.w)
  /\ Max(y - half, 0) <= p[1] /\ p[1] < Min(y + half, image_rgb.h)

\* Sum of the three squared integer channel differences.
TrueDistSq(a, b) ==
  (a[1] - b[1]) * (a[1] - b[1]) + (a[2] - b[2]) * (a[2] - b[2])
  + (a[3] - b[3]) * (a[3] - b[3])

TopSnapshot == heap[history[Len(history)]]

\* ------------------------------------------------------------------ claims
\* C1: after a load, N >= 2 in-bounds classify clicks and then N-1 undos,
\* WorkingMask equals the WorkingMask as it was right after the first click.
C1_UndoPartialRollback ==
  (run.pure /\ run.n >= 2 /\ run.u = run.n - 1) => WorkingMask = first

\* C2: after a load, N >= 1 in-bounds classify clicks and then N undos,
\* WorkingMask equals SourceImage with every pixel Unmarked and HistoryStack
\* holds exactly one snapshot, equal to SourceImage; one more undo leaves
\* all of that as it is.
C2_UndoFullRollback ==
  (run.pure /\ run.n >= 1 /\ run.u >= run.n) =>
    /\ WorkingMask = image_rgb
    /\ WorkingLabel = AllUnmarked(image_rgb)
    /\ Len(history) = 1
    /\ TopSnapshot = image_rgb

C2_Witness == run.pure /\ run.n = 2 /\ run.u = 3

\* C3: right after an applyClassification or an undo on a loaded image, the
\* last snapshot of HistoryStack equals the current WorkingMask.
C3_HistoryTopMirror ==
  [][((\E pt \in ClickPoints : Classify(pt[1], pt[2])) \/ (Loaded /\ undo))
       => TopSnapshot' = WorkingMask']_vars

\* C4: a step other than a load changes the pixels of no snapshot that stays
\* on HistoryStack, and the oldest snapshot always equals SourceImage.
C4_SnapshotIndependence ==
  [][(Loaded /\ ~(\E file \in Files : open_image(file))) =>
       /\ \A i \in 1 .. Min(Len(history), Len(history')) :
            heap'[history'[i]] = heap[history[i]]
       /\ heap'[history'[1]] = image_rgb']_vars

\* C5: an in-bounds classify click with reference colour C sets every pixel
\* P of its window to Marked exactly when the sum of the squared channel
\* differences of C and P is below 300 * 300, to Cleared otherwise.
C5_ThresholdBoundary ==
  [][\A pt \in ClickPoints :
       Classify(pt[1], pt[2]) =>
         \A p \in DOMAIN image_rgb.px :
           InClipped(p, pt[1], pt[2], 25) =>
             /\ WorkingLabel'[p] \in {"Marked", "Cleared"}
             /\ WorkingLabel'[p] = "Marked"
                  <=> TrueDistSq(image_rgb.px[p], selected_color') < 90000]_vars


\* C6: with an image loaded, the raster save_green_mask writes is 255 at the
\* pixels in Marked state and 0 at every other pixel, and the export changes
\* neither WorkingMask nor HistoryStack.
C6_ExportMapping ==
  [][\A ok \in BOOLEAN :
       (Loaded /\ save_green_mask(ok)) =>
         /\ exported' # None =>
              \A p \in DOMAIN WorkingLabel :
                exported'.px[p] = IF WorkingLabel[p] = "Marked" THEN 255 ELSE 0
         /\ UNCHANGED <<segmented_image, history, heap, label>>]_vars

\* The steps the claim lets take a pixel p out of Marked: an undo, or an
\* erase click whose clipped window covers p.
ByEraseOrUndo(p) ==
  \/ undo
  \/ \E pt \in ClickPoints : Erase(pt[1], pt[2]) /\ InClipped(p, pt[1], pt[2], 10)

LeavesMarked(p) == WorkingLabel[p] = "Marked" /\ WorkingLabel'[p] # "Marked"

NotALoad == Loaded /\ ~(\E file \in Files : open_image(file))

\* C7 as stated: after load, a Marked pixel leaves Marked only by an erase
\* covering it or an undo.
C7_MarkedSticky ==
  [][NotALoad => \A p \in DOMAIN WorkingLabel : LeavesMarked(p) => ByEraseOrUndo(p)]_vars

\* C7 as amended: after load, a Marked pixel leaves Marked only by an erase
\* covering it, an undo, or a classify click whose window covers it and
\* classifies it as non-match (it becomes Cleared); reset never changes it.
C7_MarkedStickyAmended ==
  [][NotALoad =>
       \A p \in DOMAIN WorkingLabel :
         LeavesMarked(p) =>
           \/ ByEraseOrUndo(p)
           \/ \E pt \in ClickPoints :
                /\ Classify(pt[1], pt[2])
                /\ InClipped(p, pt[1], pt[2], 25)
                /\ WorkingLabel'[p] = "Cleared"]_vars

\* A classify click has just turned a Marked pixel into Cleared.
C7_Witness ==
  /\ Len(history) >= 2
  /\ ~remove_mask_mode
  /\ \E p \in DOMAIN WorkingLabel :
       /\ WorkingLabel[p] = "Cleared"
       /\ label[history[Len(history)]][p] = "Marked"

\* C8: an in-bounds classify click at (x, y) leaves every WorkingMask pixel
\* outside [max(x-25,0), min(x+25,width)) x [max(y-25,0), min(y+25,height))
\* unchanged, and leaves SourceImage unchanged.
C8_ClassificationLocality ==
  [][\A pt \in ClickPoints :
       Classify(pt[1], pt[2]) =>
         /\ \A p \in DOMAIN image_rgb.px :
              ~InClipped(p, pt[1], pt[2], 25) => WorkingMask'.px[p] = WorkingMask.px[p]
         /\ image_rgb' = image_rgb]_vars

\* One click on a fresh image marked pixels and left others outside its window.
C8_Witness ==
  /\ run.pure /\ run.n = 1 /\ run.u = 0
  /\ \E p \in DOMAIN WorkingLabel : WorkingLabel[p] = "Unmarked"
  /\ \E p \in DOMAIN WorkingLabel : WorkingLabel[p] = "Marked"

\* C9: an in-bounds erase click at (x, y) makes every WorkingMask pixel in
\* [max(x-10,0), min(x+10,width)) x [max(y-10,0), min(y+10,height)) equal to
\* its SourceImage pixel, leaves every other pixel unchanged, and pushes
\* nothing onto HistoryStack.
C9_EraseReverts ==
  [][\A pt \in ClickPoints :
       (InBounds(pt[1], pt[2]) /\ Erase(pt[1], pt[2])) =>
         /\ \A p \in DOMAIN image_rgb.px :
              WorkingMask'.px[p] = IF InClipped(p, pt[1], pt[2], 10)
                                   THEN image_rgb.px[p]
                                   ELSE WorkingMask.px[p]
         /\ Len(history') = Len(history)]_vars

\* The origin of the wide strip was classified, then erased; a classified
\* pixel past the erase window keeps its marker colour.
C9_Witness ==
  /\ remove_mask_mode /\ image = "wide" /\ selected_color = BLACK
  /\ Len(history) = 2 /\ clicks = 2
  /\ WorkingLabel[<<0, 0>>] = "Unmarked"
  /\ WorkingLabel[<<0, 10>>] # "Unmarked"

\* C10: a load sets WorkingMask to the new SourceImage, all Unmarked, and
\* HistoryStack to one snapshot equal to it; an undo right after the load
\* changes nothing.
C10_LoadResets ==
  [][/\ \A file \in Files :
          open_image(file) =>
            /\ WorkingMask' = image_rgb'
            /\ WorkingLabel' = AllUnmarked(image_rgb')
            /\ Len(history') = 1
            /\ TopSnapshot' = image_rgb'
     /\ (undo /\ run.pure /\ run.n = 0) =>
          UNCHANGED <<segmented_image, history, heap, label>>]_vars

\* A second image was loaded over a clicked one, and undo pressed.
C10_Witness ==
  /\ run.pure /\ run.n = 0 /\ run.u = 1
  /\ clicks = 0 /\ selected_color # NoColor

\* C11: on a loaded image resetUnmarkedRegions sets every Cleared pixel to
\* its SourceImage value (it becomes Unmarked), leaves every Marked and
\* every Unmarked pixel as it is, and leaves HistoryStack at its length.
C11_ResetSemantics ==
  [][(Loaded /\ reset_white_regions) =>
       /\ \A p \in DOMAIN WorkingLabel :
            /\ WorkingLabel[p] = "Cleared" =>
                 /\ WorkingMask'.px[p] = image_rgb.px[p]
                 /\ WorkingLabel'[p] = "Unmarked"
            /\ WorkingLabel[p] # "Cleared" =>
                 /\ WorkingMask'.px[p] = WorkingMask.px[p]
                 /\ WorkingLabel'[p] = WorkingLabel[p]
       /\ Len(history') = Len(history)]_vars

\* One click on the tall strip cleared its black pixel in row 2, one reset
\* (no erase: the only click was the classification) restored it.
C11_Witness ==
  /\ image = "tall" /\ clicks = 1 /\ Len(history) = 2
  /\ WorkingLabel[<<0, 0>>] = "Marked"
  /\ image_rgb.px[<<2, 0>>] = BLACK
  /\ WorkingLabel[<<2, 0>>] = "Unmarked"

\* No pixel of the working mask is one a reset would change: a white pixel
\* is a white source pixel in Unmarked state.
Settled == \A p \in DOMAIN WorkingMask.px :
             WorkingMask.px[p] = WHITE =>
               image_rgb.px[p] = WHITE /\ WorkingLabel[p] = "Unmarked"

\* C12: a reset leaves a mask that a further reset does not change: the
\* first reset leaves no white pixel but Unmarked white source pixels, and a reset
\* of such a mask changes no array, no pixel state and no part of
\* HistoryStack, so two resets in a row yield what one yields.
C12_IdempotentReset ==
  [][(Loaded /\ reset_white_regions) =>
       /\ Settled'
       /\ Settled => UNCHANGED <<segmented_image, history, heap, label>>]_vars

\* One click on the tall strip cleared its green pixel in row 1, a reset
\* restored it; a further reset leads back to this very state.
C12_Witness ==
  /\ image = "tall" /\ selected_color = DARK /\ clicks = 1 /\ Len(history) = 2
  /\ Settled
  /\ WorkingLabel[<<0, 0>>] = "Marked"
  /\ image_rgb.px[<<1, 0>>] = GREEN
  /\ WorkingLabel[<<1, 0>>] = "Unmarked"

\* C13: before any image is loaded, no handler raises an error, and a canvas
\* click (in either mode), reset, undo and export leave WorkingMask,
\* HistoryStack and the mode flag as they are.
C13_NoImageNoOp ==
  [][(~Loaded /\ ~(\E file \in Files : open_image(file)) /\ ~toggle_remove_mask_mode) =>
       /\ raised' = NoError
       /\ UNCHANGED <<segmented_image, history, heap, remove_mask_mode>>]_vars

\* C14: with an image loaded, a click outside the image, in either mode,
\* raises no error, and it leaves HistoryStack unchanged unless it writes
\* WorkingMask.
C14_OutOfBoundsClipped ==
  [][\A pt \in ClickPoints :
       (Loaded /\ ~InBounds(pt[1], pt[2]) /\ on_click(pt[1], pt[2])) =>
         /\ raised' = NoError
         /\ history' # history => WorkingMask' # WorkingMask]_vars

\* C15: with an image loaded HistoryStack holds at least one snapshot; an
\* in-bounds classify click makes it one longer, the new last snapshot being
\* the WorkingMask as it was before the click; an undo makes it one shorter
\* if it held more than one snapshot and leaves it alone otherwise; reset
\* and erase leave its length unchanged.
C15_HistoryLength ==
  [][/\ Loaded' => Len(history') >= 1
     /\ \A pt \in ClickPoints :
          /\ Classify(pt[1], pt[2]) =>
               /\ Len(history') = Len(history) + 1
               /\ TopSnapshot' = WorkingMask
          /\ Erase(pt[1], pt[2]) => Len(history') = Len(history)
     /\ (Loaded /\ undo) =>
          Len(history') = IF Len(history) > 1 THEN Len(history) - 1 ELSE Len(history)
     /\ (Loaded /\ reset_white_regions) => Len(history') = Len(history)]_vars

\* Two clicks on a fresh image, then one undo: three snapshots, then two.
C15_Witness == run.pure /\ run.n = 2 /\ run.u = 1 /\ Len(history) = 2

\* What a classify click at (x, y) makes of window pixel p, from the source
\* colour of p and the source colour at (x, y) alone.
Verdict(p, x, y) == IsSimilar(image_rgb.px[p], image_rgb.px[<<y, x>>])

\* C16: after an in-bounds classify click at (x, y) every pixel of the
\* clipped window is Marked (green) or Cleared (white), which of the two
\* being a function of its SourceImage colour and the SourceImage colour at
\* (x, y) only; a click on a mask whose window already holds that outcome
\* leaves WorkingMask as it is, so a second click at the same point yields
\* the WorkingMask of the first.
C16_LastWriteWins ==
  [][\A pt \in ClickPoints :
       Classify(pt[1], pt[2]) =>
         /\ \A p \in DOMAIN image_rgb.px :
              InClipped(p, pt[1], pt[2], 25) =>
                /\ WorkingMask'.px[p] = IF Verdict(p, pt[1], pt[2]) THEN GREEN ELSE WHITE
                /\ WorkingLabel'[p] = IF Verdict(p, pt[1], pt[2]) THEN "Marked" ELSE "Cleared"
         /\ (\A p \in DOMAIN image_rgb.px :
               InClipped(p, pt[1], pt[2], 25) =>
                 WorkingMask.px[p] = IF Verdict(p, pt[1], pt[2]) THEN GREEN ELSE WHITE)
              => WorkingMask' = WorkingMask]_vars

\* Two clicks in a row on a fresh image, the second over marked and cleared
\* pixels, left the mask of the first.
C16_Witness ==
  /\ run.pure /\ run.n = 2 /\ run.u = 0 /\ Len(history) = 3
  /\ WorkingMask = first
  /\ TopSnapshot = first
  /\ \E p \in DOMAIN WorkingLabel : WorkingLabel[p] = "Cleared"

\* The (rows, columns) shape of the slice arr[y_start:y_end, x_start:x_end]:
\* on each axis, the indices of arr that fall between the two bounds.
SliceShape(arr, win) ==
  <<Cardinality({r \in 0..(arr.h - 1) : win.y_start <= r /\ r < win.y_end}),
    Cardinality({c \in 0..(arr.w - 1) : win.x_start <= c /\ c < win.x_end})>>

\* The window of the given size around (x, y) is non-empty, contains (x, y),
\* lies inside the image, is at most size wide and high, and selects slices
\* of the same shape in the source and in the working mask.
WellClipped(x, y, size) ==
  LET win == Window(x, y, size, image_rgb.h, image_rgb.w)
  IN /\ 0 <= win.x_start /\ win.x_start <= x
     /\ x < win.x_end /\ win.x_end <= image_rgb.w
     /\ 0 <= win.y_start /\ win.y_start <= y
     /\ y < win.y_end /\ win.y_end <= image_rgb.h
     /\ win.x_end - win.x_start <= size
     /\ win.y_end - win.y_start <= size
     /\ SliceShape(image_rgb, win) = SliceShape(WorkingMask, win)
     /\ SliceShape(image_rgb, win)
          = <<win.y_end - win.y_start, win.x_end - win.x_start>>

\* C17: with an image loaded, for every in-bounds point (x, y) the
\* classification window (size 50) and the erase window (size 20) satisfy
\* 0 <= x_start <= x < x_end <= width and 0 <= y_start <= y < y_end <= height,
\* span at most their size in each direction, and the source slice and the
\* mask slice have the same shape.
C17_WindowClipping ==
  Loaded =>
    \A p \in DOMAIN image_rgb.px :
      /\ WellClipped(p[2], p[1], region_size_segment)
      /\ WellClipped(p[2], p[1], region_size_remove)

\* A classify click at the far end of the wide strip has acted: its window
\* was clipped at the right edge and left the first pixel out.
C17_Witness ==
  /\ image = "wide" /\ clicks = 1 /\ Len(history) = 2 /\ ~remove_mask_mode
  /\ WorkingLabel[<<0, Long - 1>>] = "Marked"
  /\ WorkingLabel[<<0, Long - 1 - region_size_segment \div 2>>] # "Unmarked"
  /\ WorkingLabel[<<0, 0>>] = "Unmarked"
  /\ Window(Long - 1, 0, region_size_segment, image_rgb.h, image_rgb.w).x_end
       = image_rgb.w

\* C18: every in-bounds classify click leaves the clicked pixel green and
\* Marked, so the working mask has at least one Marked pixel after it.
C18_ClickedPixelMarked ==
  [][\A pt \in ClickPoints :
       Classify(pt[1], pt[2]) =>
         /\ WorkingMask'.px[<<pt[2], pt[1]>>] = GREEN
         /\ WorkingLabel'[<<pt[2], pt[1]>>] = "Marked"
         /\ \E p \in DOMAIN WorkingLabel' : WorkingLabel'[p] = "Marked"]_vars

\* A first classify click on the tall strip has acted on a dark pixel.
C18_Witness ==
  /\ run.pure /\ run.n = 1 /\ run.u = 0
  /\ image = "tall" /\ selected_color = DARK
  /\ WorkingMask.px[<<0, 0>>] = GREEN
  /\ WorkingLabel[<<0, 0>>] = "Marked"

====
